---- MODULE Spec2Model ----
(***************************************************************************)
(* Model of obsidian-audio-note: process_voice_memos.main and              *)
(* src/file_utils.find_audio_files.                                        *)
(*                                                                         *)
(* Time.  The wall clock and the file creation times are floats in the     *)
(* program; here they are counted in ticks, TicksPerSec ticks to a second. *)
(* int(time.time()) is the whole second a tick lies in.                    *)
(***************************************************************************)
EXTENDS Integers, Sequences, FiniteSets, TLC

\* ------------------------------------------------------------------ bounds
TicksPerSec == 2
\* the wall clock (in ticks) when the model starts, and where it stops
StartClock == 18
MaxClock == 20
\* SpecFind: entries of the listed directory, and the range of creation times
MaxItems == 3
MaxCtime == 2
\* Spec: recordings that arrive in the source directory, runs of main()
MaxFiles == 2
MaxRuns == 2
\* SpecStore: the latest whole second at which a checkpoint is written
MaxSeconds == 101

\* Optional[float] None: no timestamp is negative, so -1 stands for None
None == -1

\* ------------------------------------------------------------ conversions
DigitChars == <<"0", "1", "2", "3", "4", "5", "6", "7", "8", "9">>

DigitValue(c) == (CHOOSE i \in 1..10 : DigitChars[i] = c) - 1

\* str(n) for an integer n >= 0: its decimal digits
RECURSIVE Str(_)
Str(n) == IF n < 10 THEN <<DigitChars[n + 1]>>
          ELSE Append(Str(n \div 10), DigitChars[(n % 10) + 1])

\* int(s) for a string of decimal digits
RECURSIVE ParseInt(_)
ParseInt(s) == IF Len(s) = 0 THEN 0
               ELSE 10 * ParseInt(SubSeq(s, 1, Len(s) - 1)) + DigitValue(s[Len(s)])

\* int(time.time()): the whole seconds of a clock reading
IntSeconds(now) == now \div TicksPerSec

\* a whole-second timestamp as the float the comparison with ctime uses
SecondsToTicks(sec) == sec * TicksPerSec

\* faulty variant: the clock reading without int()
generate_timestamp_unrounded(now) == Str(now)

\* str(int(time.time()))
generate_timestamp(now) == Str(IntSeconds(now))

\* str.lower() on the characters that occur in the modelled suffixes
LowerChar(c) == CASE c = "M" -> "m"
                  [] c = "A" -> "a"
                  [] c = "Q" -> "q"
                  [] c = "T" -> "t"
                  [] c = "P" -> "p"
                  [] OTHER -> c

Lower(s) == [i \in 1..Len(s) |-> LowerChar(s[i])]

\* ------------------------------------------------------- find_audio_files
\* A directory entry: path (its name, under its parent's for a nested one),
\* suffix (the characters after the last dot), is_file, ctime (ticks) and,
\* for a subdirectory, its own entries.
audio_extensions == { <<"m", "4", "a">>, <<"q", "t", "a">> }

Ok(v) == [ok |-> TRUE, value |-> v]
Raise(e) == [ok |-> FALSE, error |-> e]

\* directory.iterdir(): the entries directly in the directory, in the
\* order the operating system lists them
Iterdir(target) == target.entries

\* faulty variant: the suffix compared without lower()
HasAudioSuffixCaseSensitive(item) == item.suffix \in audio_extensions

\* item.suffix.lower() in audio_extensions
HasAudioSuffix(item) == Lower(item.suffix) \in audio_extensions

\* faulty variant: >= where the code has >
CreatedAfterOrAt(file_ctime, timestamp) == file_ctime >= timestamp

\* file_ctime > timestamp
CreatedAfter(file_ctime, timestamp) == file_ctime > timestamp

\* the loop over items: found_files in iteration order.  unreadable is the
\* set of paths whose os.path.getctime raises OSError at that moment.
RECURSIVE FilterItems(_, _, _)
FilterItems(items, timestamp, unreadable) ==
    IF Len(items) = 0 THEN <<>>
    ELSE LET item == Head(items)
             rest == FilterItems(Tail(items), timestamp, unreadable)
         IN  IF ~item.is_file THEN rest
             ELSE IF HasAudioSuffix(item)
                  THEN IF timestamp # None
                       THEN IF item.path \in unreadable THEN rest
                            ELSE IF CreatedAfter(item.ctime, timestamp)
                                 THEN <<item>> \o rest
                                 ELSE rest
                       ELSE <<item>> \o rest
                  ELSE rest

\* insert x behind every element whose key is >= x's: with the elements
\* taken in their original order this is the stable descending sort
RECURSIVE InsertDesc(_, _)
InsertDesc(sorted, x) ==
    IF Len(sorted) = 0 THEN <<x>>
    ELSE IF Head(sorted).ctime >= x.ctime
         THEN <<Head(sorted)>> \o InsertDesc(Tail(sorted), x)
         ELSE <<x>> \o sorted

RECURSIVE SortedDesc(_)
SortedDesc(found) ==
    IF Len(found) = 0 THEN <<>>
    ELSE InsertDesc(SortedDesc(SubSeq(found, 1, Len(found) - 1)), found[Len(found)])

\* faulty variant: the sort without reverse=True
SortOldestFirst(found, unreadable) ==
    Ok([i \in 1..Len(found) |-> SortedDesc(found)[Len(found) + 1 - i]])

\* found_files.sort(key=getctime, reverse=True): the key function is not
\* guarded, an OSError leaves the call
SortNewestFirst(found, unreadable) ==
    IF \E i \in 1..Len(found) : found[i].path \in unreadable
    THEN Raise("OSError")
    ELSE Ok(SortedDesc(found))

\* faulty variant: is_dir() tested before exists()
find_audio_files_at_dir_first(target, timestamp, unreadableFilter, unreadableSort) ==
    IF target.kind # "dir" THEN Raise("NotADirectoryError")
    ELSE IF ~target.listable THEN Raise("PermissionError")
    ELSE SortNewestFirst(FilterItems(Iterdir(target), timestamp, unreadableFilter),
                         unreadableSort)

\* find_audio_files(directory, timestamp).  target is what the path names:
\* nothing (kind "absent"), a file, or a directory with its entries.
find_audio_files_at(target, timestamp, unreadableFilter, unreadableSort) ==
    IF target.kind = "absent" THEN Raise("FileNotFoundError")
    ELSE IF target.kind # "dir" THEN Raise("NotADirectoryError")
    ELSE IF ~target.listable THEN Raise("PermissionError")
    ELSE SortNewestFirst(FilterItems(Iterdir(target), timestamp, unreadableFilter),
                         unreadableSort)

\* the call on a directory that does not change while it runs
find_audio_files(target, timestamp) == find_audio_files_at(target, timestamp, {}, {})

\* ------------------------------------------------------------------ state
VARIABLES
    clock,          \* the wall clock, in ticks
    source,         \* what the source directory path names
    cwd,            \* the working directory: file name -> content
    notes,          \* the output directory: note name -> body
    run,            \* the locals and position of each run of main()
    nruns,          \* runs started so far
    log,            \* history: the note writes, in order
    succeeded,      \* history: run id -> what a run that reached the checkpoint
                    \* write saw at discovery and wrote as the checkpoint
    fa_timestamp,   \* SpecFind: the timestamp argument
    fa_result,      \* SpecFind: <<>> before the call, <<outcome>> after it
    fa_unreadable,  \* SpecRace: the paths whose getctime raises OSError,
                    \* <<during the filter loop, during the sort>>
    st_written,     \* SpecStore: <<>>, or <<clock reading of the latest write,
                    \* whether an earlier write came before it>>
    st_read         \* SpecStore: <<>>, or <<what the latest read returned>>

vars == <<clock, source, cwd, notes, run, nruns, log, succeeded,
          fa_timestamp, fa_result, fa_unreadable, st_written, st_read>>

mainVars == <<clock, cwd, notes, run, nruns, log, succeeded>>

\* --------------------------------------------------------------- SpecFind
\* find_audio_files as a function of the directory and the timestamp.
M4A == <<"m", "4", "a">>

FindSuffixes == { M4A, <<"M", "4", "A">>, <<"Q", "t", "a">>, <<"m", "p", "3">> }

File(path, suffix, ctime) ==
    [path |-> path, suffix |-> suffix, is_file |-> TRUE, ctime |-> ctime, entries |-> <<>>]

Subdir(path, suffix, ctime, entries) ==
    [path |-> path, suffix |-> suffix, is_file |-> FALSE, ctime |-> ctime, entries |-> entries]

\* the entry at position i of a listing: a file, an empty subdirectory, or
\* a subdirectory named like a recording that holds a recording
EntriesAt(i) ==
    { File(<<i>>, s, c) : s \in FindSuffixes, c \in 0..MaxCtime }
    \cup { Subdir(<<i>>, <<>>, MaxCtime, <<>>),
           Subdir(<<i>>, M4A, MaxCtime, << File(<<i, 1>>, M4A, MaxCtime) >>) }

RECURSIVE Listings(_)
Listings(n) ==
    IF n = 0 THEN { <<>> }
    ELSE LET shorter == Listings(n - 1)
         IN  shorter \cup { Append(l, e) : l \in { s \in shorter : Len(s) = n - 1 },
                                           e \in EntriesAt(n) }

Dir(entries) == [kind |-> "dir", listable |-> TRUE, entries |-> entries]

FindTargets ==
    { Dir(l) : l \in Listings(MaxItems) }
    \cup { [kind |-> "absent", listable |-> FALSE, entries |-> <<>>],
           [kind |-> "file", listable |-> FALSE, entries |-> <<>>],
           [kind |-> "dir", listable |-> FALSE, entries |-> <<>>] }

InitMainIdle ==
    /\ clock = StartClock
    /\ cwd = << >>
    /\ notes = << >>
    /\ run = << >>
    /\ nruns = 0
    /\ log = << >>
    /\ succeeded = << >>

StoreIdle == st_written = << >> /\ st_read = << >>

storeVars == <<st_written, st_read>>

FindInit ==
    /\ source \in FindTargets
    /\ fa_timestamp \in {None} \cup 0..MaxCtime
    /\ fa_result = << >>
    /\ fa_unreadable = << {}, {} >>
    /\ InitMainIdle
    /\ StoreIdle

FindCall ==
    /\ fa_result = << >>
    /\ fa_result' = << find_audio_files(source, fa_timestamp) >>
    /\ UNCHANGED <<source, fa_timestamp, fa_unreadable, mainVars, storeVars>>

FindNext == FindCall

SpecFind == FindInit /\ [][FindNext]_vars

\* --------------------------------------------------------------- SpecRace
\* find_audio_files on a directory whose files may stop being readable
\* (deleted, access withdrawn) after is_file() has seen them: some before
\* the filter loop reads their creation time, some before the sort does.
TopLevelPaths == { source.entries[i].path : i \in 1..Len(source.entries) }

RaceCall ==
    /\ fa_result = << >>
    /\ \E duringFilter \in SUBSET TopLevelPaths, duringSort \in SUBSET TopLevelPaths :
          /\ fa_unreadable' = << duringFilter, duringSort >>
          /\ fa_result' = << find_audio_files_at(source, fa_timestamp,
                                                   duringFilter, duringSort) >>
    /\ UNCHANGED <<source, fa_timestamp, mainVars, storeVars>>

RaceNext == RaceCall

SpecRace == FindInit /\ [][RaceNext]_vars

\* ------------------------------------------------------------------- Spec
\* Runs of main(), one after the other, while the clock advances and
\* recordings arrive in the source directory.

\* read_timestamp(path): the checkpoint, or None when the file is missing
read_timestamp(fs, path) ==
    IF path \in DOMAIN fs THEN ParseInt(fs[path]) ELSE None

\* write_timestamp(path): replaces the file's content by str(int(time.time()))
write_timestamp(fs, path, now) == (path :> Str(IntSeconds(now))) @@ fs

\* write_string_to_file(directory, name, text): creates or overwrites the file
write_string_to_file(dir, name, text) == (name :> text) @@ dir

\* what convert_to_mp3 exports for a recording, and what transcribe_mp3
\* returns for an MP3: the collaborators are functions of their input
Mp3Of(audio_file) == [mp3_of |-> audio_file.path]

TextOf(mp3) == [text_of |-> mp3.mp3_of]

NoText == [text_of |-> << >>]

\* what audio.export leaves behind when it raises part-way: the MP3 of
\* no recording
PartialMp3 == [mp3_of |-> << >>]

\* faulty variants: one of the two calls names another file
ReadCheckpointPathOther == "timestamp.txt"

WriteCheckpointPathOther == "timestamp.txt"

\* main() line 19 and line 28: both name the same file
ReadCheckpointPath == "last_timestamp.txt"

WriteCheckpointPath == "last_timestamp.txt"

TempMp3 == "temp.mp3"

NoteName(now) == generate_timestamp(now) \o <<".", "m", "d">>

\* the timestamp main() hands to find_audio_files: whole seconds, compared
\* there with the float creation times
FilterArgument(timestamp) ==
    IF timestamp = None THEN None ELSE SecondsToTicks(timestamp)

\* the orders in which the operating system may list the entries
Orderings(entries) ==
    { [i \in 1..Len(entries) |-> entries[f[i]]] :
        f \in { g \in [1..Len(entries) -> 1..Len(entries)] :
                 \A a, b \in 1..Len(entries) : a # b => g[a] # g[b] } }

Procs == {1}

\* a run's locals (timestamp, audio_files, the loop position i,
\* transcription), its position pc, and its history: id, the working
\* directory before it started, the paths present at its discovery, and
\* the operations it has started
\* history of the run before this one: what a halted run left unprocessed
NoPrev == [halted |-> FALSE, pending |-> {}, present |-> {}]

IdleRun ==
    [pc |-> "idle", id |-> 0, timestamp |-> None, audio_files |-> << >>, i |-> 0,
     transcription |-> NoText, before |-> << >>, present |-> {}, ops |-> << >>,
     now |-> None, prev |-> NoPrev]

\* the candidate a run halted on and the ones after it in its list
PendingOf(r) ==
    IF r.pc = "failed" /\ r.i >= 1
    THEN [halted |-> TRUE,
          pending |-> { r.audio_files[k].path : k \in r.i..Len(r.audio_files) },
          present |-> r.present]
    ELSE NoPrev

\* faulty variant: the raise is swallowed and the loop goes on
SkipCandidate(r, op) ==
    [r EXCEPT !.ops = @ \o <<op, <<"raise">>>>,
              !.i = @ + 1,
              !.pc = IF r.i + 1 > Len(r.audio_files) THEN "write_checkpoint" ELSE "convert"]

\* a step raises and main() handles nothing: the run ends there
Raised(r, op) ==
    [r EXCEPT !.ops = @ \o <<op, <<"raise">>>>, !.pc = "failed"]

MainSuffixes == { M4A, <<"m", "p", "3">> }

Init ==
    /\ clock = StartClock
    /\ source = Dir(<< >>)
    /\ cwd = << >>
    /\ notes = << >>
    /\ run = [p \in Procs |-> IdleRun]
    /\ nruns = 0
    /\ log = << >>
    /\ succeeded = << >>
    /\ fa_timestamp = None
    /\ fa_result = << >>
    /\ fa_unreadable = << {}, {} >>
    /\ StoreIdle

otherVars == <<fa_timestamp, fa_result, fa_unreadable, st_written, st_read>>

\* the environment: time passes
Tick ==
    /\ clock < MaxClock
    /\ clock' = clock + 1
    /\ UNCHANGED <<source, cwd, notes, run, nruns, log, succeeded, otherVars>>

\* the environment: a file appears in the source directory, created now
NewRecording ==
    /\ Len(source.entries) < MaxFiles
    /\ \E s \in MainSuffixes :
          source' = [source EXCEPT !.entries =
                        Append(@, File(<<Len(source.entries) + 1>>, s, clock))]
    /\ UNCHANGED <<clock, cwd, notes, run, nruns, log, succeeded, otherVars>>

\* faulty variant: main() returns early when nothing was found
LoopPcReturnWhenEmpty(audio_files, i) ==
    IF Len(audio_files) = 0 THEN "done"
    ELSE IF i > Len(audio_files) THEN "write_checkpoint" ELSE "convert"

\* faulty variant: the loop is left after its first candidate
LoopPcFirstOnly(audio_files, i) ==
    IF i > 1 \/ i > Len(audio_files) THEN "write_checkpoint" ELSE "convert"

\* the for loop: the next candidate, or past the loop to the checkpoint write
LoopPc(audio_files, i) ==
    IF i > Len(audio_files) THEN "write_checkpoint" ELSE "convert"

\* faulty variant: an invocation waits until no other run is in progress
StartExclusive(p) ==
    /\ run[p].pc \in {"idle", "done", "failed"}
    /\ \A q \in DOMAIN run : run[q].pc \in {"idle", "done", "failed"}
    /\ nruns < MaxRuns
    /\ nruns' = nruns + 1
    /\ run' = [run EXCEPT ![p] = [IdleRun EXCEPT !.pc = "read_checkpoint",
                                                 !.id = nruns + 1,
                                                 !.before = cwd,
                                                 !.prev = PendingOf(run[p])]]
    /\ UNCHANGED <<clock, source, cwd, notes, log, succeeded, otherVars>>

\* main() is invoked: a run that is not in progress starts
Start(p) ==
    /\ run[p].pc \in {"idle", "done", "failed"}
    /\ nruns < MaxRuns
    /\ nruns' = nruns + 1
    /\ run' = [run EXCEPT ![p] = [IdleRun EXCEPT !.pc = "read_checkpoint",
                                                 !.id = nruns + 1,
                                                 !.before = cwd,
                                                 !.prev = PendingOf(run[p])]]
    /\ UNCHANGED <<clock, source, cwd, notes, log, succeeded, otherVars>>

\* timestamp = read_timestamp("last_timestamp.txt")
ReadCheckpoint(p) ==
    /\ run[p].pc = "read_checkpoint"
    /\ run' = [run EXCEPT ![p].timestamp = read_timestamp(cwd, ReadCheckpointPath),
                          ![p].ops = Append(@, <<"read">>),
                          ![p].pc = "discover"]
    /\ UNCHANGED <<clock, source, cwd, notes, nruns, log, succeeded, otherVars>>

\* audio_files = find_audio_files(voice_memos_dir, timestamp)
Discover(p) ==
    /\ run[p].pc = "discover"
    /\ \E listing \in Orderings(source.entries) :
          LET found == find_audio_files([source EXCEPT !.entries = listing],
                                        FilterArgument(run[p].timestamp))
          IN  run' = [run EXCEPT
                        ![p] = IF found.ok
                               THEN [@ EXCEPT !.audio_files = found.value,
                                              !.i = 1,
                                              !.present = { listing[k].path : k \in 1..Len(listing) },
                                              !.ops = Append(@, <<"discover">>),
                                              !.pc = LoopPc(found.value, 1)]
                               ELSE Raised(@, <<"discover">>)]
    /\ UNCHANGED <<clock, source, cwd, notes, nruns, log, succeeded, otherVars>>

\* convert_to_mp3(audio_file, "temp.mp3"): exports the MP3, or raises,
\* before the export or part-way through it
Convert(p) ==
    /\ run[p].pc = "convert"
    /\ LET audio_file == run[p].audio_files[run[p].i]
       IN  \/ /\ cwd' = (TempMp3 :> Mp3Of(audio_file)) @@ cwd
              /\ run' = [run EXCEPT ![p].ops = Append(@, <<"convert", audio_file.path>>),
                                    ![p].pc = "transcribe"]
           \/ /\ \/ cwd' = cwd
                 \/ cwd' = (TempMp3 :> PartialMp3) @@ cwd
              /\ run' = [run EXCEPT ![p] = Raised(@, <<"convert", audio_file.path>>)]
    /\ UNCHANGED <<clock, source, notes, nruns, log, succeeded, otherVars>>

\* transcription = transcribe_mp3("temp.mp3"): the text, or raises
Transcribe(p) ==
    /\ run[p].pc = "transcribe"
    /\ LET audio_file == run[p].audio_files[run[p].i]
       IN  \/ /\ TempMp3 \in DOMAIN cwd
              /\ run' = [run EXCEPT ![p].transcription = TextOf(cwd[TempMp3]),
                                    ![p].ops = Append(@, <<"transcribe", audio_file.path>>),
                                    ![p].pc = "write_note"]
           \/ run' = [run EXCEPT ![p] = Raised(@, <<"transcribe", audio_file.path>>)]
    /\ UNCHANGED <<clock, source, cwd, notes, nruns, log, succeeded, otherVars>>

\* write_string_to_file(output_dir, generate_timestamp() + ".md", transcription)
\* and the step to the next candidate, or the write raises
WriteNote(p) ==
    /\ run[p].pc = "write_note"
    /\ LET audio_file == run[p].audio_files[run[p].i]
       IN  \/ /\ notes' = write_string_to_file(notes, NoteName(clock), run[p].transcription)
              /\ log' = Append(log, [run |-> run[p].id, path |-> audio_file.path,
                                      name |-> NoteName(clock),
                                      body |-> run[p].transcription, at |-> clock])
              /\ run' = [run EXCEPT ![p].ops = Append(@, <<"note", audio_file.path>>),
                                    ![p].i = @ + 1,
                                    ![p].pc = LoopPc(run[p].audio_files, run[p].i + 1)]
           \/ /\ UNCHANGED <<notes, log>>
              /\ run' = [run EXCEPT ![p] = Raised(@, <<"note", audio_file.path>>)]
    /\ UNCHANGED <<clock, source, cwd, nruns, succeeded, otherVars>>

\* faulty variant: the checkpoint write does not wait for the loop to end
WriteCheckpointInLoop(p) ==
    /\ run[p].pc \in {"write_checkpoint", "convert"}
    /\ cwd' = write_timestamp(cwd, WriteCheckpointPath, clock)
    /\ succeeded' = (run[p].id :> [present |-> run[p].present, at |-> clock]) @@ succeeded
    /\ run' = [run EXCEPT ![p].ops = Append(@, <<"checkpoint">>),
                          ![p].pc = "done"]
    /\ UNCHANGED <<clock, source, notes, nruns, log, otherVars>>

\* write_timestamp("last_timestamp.txt")
WriteCheckpoint(p) ==
    /\ run[p].pc = "write_checkpoint"
    /\ cwd' = write_timestamp(cwd, WriteCheckpointPath, clock)
    /\ succeeded' = (run[p].id :> [present |-> run[p].present, at |-> clock]) @@ succeeded
    /\ run' = [run EXCEPT ![p].ops = Append(@, <<"checkpoint">>),
                          ![p].pc = "done"]
    /\ UNCHANGED <<clock, source, notes, nruns, log, otherVars>>

Next ==
    \/ Tick
    \/ NewRecording
    \/ \E p \in Procs :
          \/ Start(p)
          \/ ReadCheckpoint(p)
          \/ Discover(p)
          \/ Convert(p)
          \/ Transcribe(p)
          \/ WriteNote(p)
          \/ WriteCheckpoint(p)

Spec == Init /\ [][Next]_vars

\* ------------------------------------------------------------ SpecOverlap
\* Two invocations of main() that may be in progress at the same time, as
\* when a scheduler launches one while the other still runs.  They share
\* the working directory (temp.mp3, last_timestamp.txt), the notes
\* directory and the source directory.  write_timestamp is two steps here:
\* it reads the clock, then replaces the file.
OverlapProcs == {1, 2}

OverlapInit ==
    /\ clock = StartClock
    /\ source = Dir(<< >>)
    /\ cwd = << >>
    /\ notes = << >>
    /\ run = [p \in OverlapProcs |-> IdleRun]
    /\ nruns = 0
    /\ log = << >>
    /\ succeeded = << >>
    /\ fa_timestamp = None
    /\ fa_result = << >>
    /\ fa_unreadable = << {}, {} >>
    /\ StoreIdle

\* write_timestamp, first step: int(time.time())
ReadClock(p) ==
    /\ run[p].pc = "write_checkpoint"
    /\ run' = [run EXCEPT ![p].now = clock,
                          ![p].pc = "store_checkpoint"]
    /\ UNCHANGED <<clock, source, cwd, notes, nruns, log, succeeded, otherVars>>

\* write_timestamp, second step: the file is replaced by the value read
StoreCheckpoint(p) ==
    /\ run[p].pc = "store_checkpoint"
    /\ cwd' = write_timestamp(cwd, WriteCheckpointPath, run[p].now)
    /\ succeeded' = (run[p].id :> [present |-> run[p].present, at |-> run[p].now])
                        @@ succeeded
    /\ run' = [run EXCEPT ![p].ops = Append(@, <<"checkpoint">>),
                          ![p].pc = "done"]
    /\ UNCHANGED <<clock, source, notes, nruns, log, otherVars>>

OverlapNext ==
    \/ Tick
    \/ NewRecording
    \/ \E p \in OverlapProcs :
          \/ Start(p)
          \/ ReadCheckpoint(p)
          \/ Discover(p)
          \/ Convert(p)
          \/ Transcribe(p)
          \/ WriteNote(p)
          \/ ReadClock(p)
          \/ StoreCheckpoint(p)

SpecOverlap == OverlapInit /\ [][OverlapNext]_vars

\* -------------------------------------------------------------- SpecStore
\* The checkpoint file on its own: writes at any clock reading, and reads,
\* through the two calls of main().
StoreInit ==
    /\ cwd = << >>
    /\ st_written = << >>
    /\ st_read = << >>
    /\ clock = 0
    /\ source = Dir(<< >>)
    /\ notes = << >>
    /\ run = << >>
    /\ nruns = 0
    /\ log = << >>
    /\ succeeded = << >>
    /\ fa_timestamp = None
    /\ fa_result = << >>
    /\ fa_unreadable = << {}, {} >>

storeFrame == <<source, notes, run, nruns, log, succeeded,
                fa_timestamp, fa_result, fa_unreadable>>

\* write_timestamp("last_timestamp.txt") at some later clock reading
StoreWrite ==
    /\ \E now \in clock..(SecondsToTicks(MaxSeconds + 1) - 1) :
          /\ clock' = now
          /\ cwd' = write_timestamp(cwd, WriteCheckpointPath, now)
          /\ st_written' = <<now, st_written # << >> >>
    /\ st_read' = << >>
    /\ UNCHANGED storeFrame

\* read_timestamp("last_timestamp.txt")
StoreRead ==
    /\ st_read = << >>
    /\ st_read' = << read_timestamp(cwd, ReadCheckpointPath) >>
    /\ UNCHANGED <<clock, cwd, st_written, storeFrame>>

StoreNext == StoreWrite \/ StoreRead

SpecStore == StoreInit /\ [][StoreNext]_vars

\* --------------------------------------------------------------- claims
\* the checkpoint file of the working directory
CheckpointFile == "last_timestamp.txt"

\* <<content>> of the checkpoint file in fs, << >> when it does not exist
CheckpointIn(fs) == IF CheckpointFile \in DOMAIN fs THEN <<fs[CheckpointFile]>> ELSE << >>

\* the whole second a clock reading lies in
WholeSecond(t) == CHOOSE sec \in 0..t :
                    sec * TicksPerSec <= t /\ t < (sec + 1) * TicksPerSec

\* the decimal digits of a number below 1000, written out
Decimal(n) ==
    LET d(k) == DigitChars[k + 1]
    IN  IF n < 10 THEN << d(n) >>
        ELSE IF n < 100 THEN << d(n \div 10), d(n % 10) >>
        ELSE << d(n \div 100), d((n \div 10) % 10), d(n % 10) >>

\* the value of a string of decimal digits
RECURSIVE DecimalValue(_)
DecimalValue(s) ==
    IF Len(s) = 0 THEN 0
    ELSE DecimalValue(SubSeq(s, 1, Len(s) - 1)) * 10
         + (CHOOSE v \in 0..9 : DigitChars[v + 1] = s[Len(s)])

\* the note writes of run p, in order
NotesOf(p) == SelectSeq(log, LAMBDA e : e.run = run[p].id)

HasRaised(p) == \E k \in 1..Len(run[p].ops) : run[p].ops[k] = <<"raise">>

\* C1: a recording processed in a run that reached the checkpoint write is
\* not processed by a later run; later runs process only recordings that
\* were not present at that run's discovery.
C1_NoReprocessing ==
    \A k \in 1..Len(log) : \A r \in DOMAIN succeeded :
        r < log[k].run =>
            /\ log[k].path \notin succeeded[r].present
            /\ \A j \in 1..Len(log) : log[j].run = r => log[j].path # log[k].path

\* C5: when conversion, transcription or the note write raises, the run
\* ends there: nothing follows the raise, no candidate behind the failing
\* one is touched, and the checkpoint file is as it was before the run.
C5_HaltOnFailure ==
    \A p \in Procs :
        HasRaised(p) =>
            LET r == run[p]
            IN  /\ r.pc = "failed"
                /\ r.ops[Len(r.ops)] = <<"raise">>
                /\ Cardinality({ k \in 1..Len(r.ops) : r.ops[k] = <<"raise">> }) = 1
                /\ \A k \in 1..Len(r.ops) :
                      Len(r.ops[k]) = 2 =>
                          \E m \in 1..r.i : r.ops[k][2] = r.audio_files[m].path
                /\ Len(NotesOf(p)) = r.i - 1
                /\ CheckpointIn(cwd) = CheckpointIn(r.before)

C5_Witness ==
    \E p \in Procs :
        /\ run[p].pc = "failed"
        /\ Len(run[p].audio_files) = 2
        /\ run[p].i = 1
        /\ run[p].ops[Len(run[p].ops) - 1][1] = "transcribe"
        /\ CheckpointIn(cwd) # << >>

\* C6: in a run without a failure every candidate causes exactly one note
\* write, named by the decimal Unix second of the write plus ".md", whose
\* body is the transcription of that candidate; a run with a single
\* candidate leaves exactly one note.
C6_OneNotePerCandidate ==
    \A p \in Procs :
        run[p].pc = "done" =>
            LET r == run[p]
                mine == NotesOf(p)
            IN  /\ Len(mine) = Len(r.audio_files)
                /\ \A k \in 1..Len(mine) :
                      /\ mine[k].path = r.audio_files[k].path
                      /\ mine[k].name = Decimal(WholeSecond(mine[k].at)) \o <<".", "m", "d">>
                      /\ mine[k].body = [text_of |-> r.audio_files[k].path]
                      /\ mine[k].name \in DOMAIN notes
                /\ Cardinality({ k \in 1..Len(r.ops) : r.ops[k][1] = "note" })
                     = Len(r.audio_files)
                /\ (Len(r.audio_files) = 1 /\ Len(log) = 1) =>
                      /\ Cardinality(DOMAIN notes) = 1
                      /\ notes[mine[1].name] = [text_of |-> r.audio_files[1].path]

C6_Witness ==
    \E p \in Procs :
        /\ run[p].pc = "done"
        /\ Len(run[p].audio_files) = 1
        /\ Len(log) = 1
        /\ Len(source.entries) = 2
        /\ DOMAIN notes = { <<"1", "0", ".", "m", "d">> }

\* C7: a run whose discovery returns no candidates converts, transcribes
\* and writes nothing, does not fail, and writes the checkpoint with the
\* whole second of the clock at that moment, whatever the checkpoint was.
C7_EmptyRun ==
    \A p \in Procs :
        LET r == run[p]
        IN  (Len(r.ops) >= 2 /\ r.ops[2] = <<"discover">> /\ r.audio_files = << >>) =>
                /\ r.pc \in {"write_checkpoint", "done"}
                /\ Len(NotesOf(p)) = 0
                /\ \A k \in 1..Len(r.ops) : r.ops[k][1] \in {"read", "discover", "checkpoint"}
                /\ r.pc = "write_checkpoint" => ENABLED WriteCheckpoint(p)
                /\ r.pc = "done" =>
                      /\ r.ops = << <<"read">>, <<"discover">>, <<"checkpoint">> >>
                      /\ r.id \in DOMAIN succeeded
                      /\ CheckpointIn(cwd) = << Decimal(WholeSecond(succeeded[r.id].at)) >>

C7_Witness ==
    \E p \in Procs :
        /\ run[p].pc = "done"
        /\ run[p].audio_files = << >>
        /\ Len(source.entries) > 0
        /\ CheckpointIn(run[p].before) # << >>
        /\ CheckpointIn(cwd) # CheckpointIn(run[p].before)

\* C8: a note is created once per processed recording and never changes:
\* every note still has the body it was written with, and there are as
\* many notes as recordings processed.
C8_NotesImmutable ==
    /\ \A k \in 1..Len(log) : notes[log[k].name] = log[k].body
    /\ Cardinality(DOMAIN notes) = Len(log)

\* C9: the checkpoint, once written, never decreases; a run that reaches
\* the checkpoint write replaces it by the whole second of the clock at
\* that moment, and a run that fails leaves it as it was.
C9_CheckpointMonotone ==
    [][ /\ CheckpointIn(cwd) # << >> =>
              /\ CheckpointIn(cwd') # << >>
              /\ DecimalValue(CheckpointIn(cwd')[1]) >= DecimalValue(CheckpointIn(cwd)[1])
        /\ \A p \in Procs :
              /\ (run[p].pc = "write_checkpoint" /\ run'[p].pc = "done") =>
                    CheckpointIn(cwd') = << Decimal(WholeSecond(clock)) >>
              /\ run'[p].pc = "failed" =>
                    CheckpointIn(cwd') = CheckpointIn(run'[p].before)
      ]_vars

C9_Witness ==
    \E p \in Procs :
        /\ run[p].pc = "done"
        /\ CheckpointIn(run[p].before) = << <<"9">> >>
        /\ CheckpointIn(cwd) = << <<"1", "0">> >>

\* C10: a read of the checkpoint returns exactly the whole second T of the
\* latest write, also after several writes, and None when nothing was
\* written and the file does not exist.
C10_RoundTrip ==
    st_read # << >> =>
        st_read[1] = IF st_written = << >> THEN None ELSE WholeSecond(st_written[1])

C10_Witness ==
    /\ st_read # << >>
    /\ st_written # << >>
    /\ st_written[2]
    /\ st_read[1] = MaxSeconds

\* The outcome of the call, once made, on a directory that can be listed.
FindReturned == fa_result # << >> /\ source.kind = "dir" /\ source.listable

FindResult == fa_result[1].value

\* a suffix that is m4a or qta in any letter case, spelled out
IsAudioSuffix(s) ==
    /\ Len(s) = 3
    /\ \/ s[1] \in {"m", "M"} /\ s[2] = "4" /\ s[3] \in {"a", "A"}
       \/ s[1] \in {"q", "Q"} /\ s[2] \in {"t", "T"} /\ s[3] \in {"a", "A"}

\* the regular files directly in the directory that carry an audio suffix
Qualifying == { i \in 1..Len(source.entries) :
                  source.entries[i].is_file /\ IsAudioSuffix(source.entries[i].suffix) }

ResultPaths == { FindResult[k].path : k \in 1..Len(FindResult) }

\* C2: with a checkpoint t, find_audio_files returns every qualifying file
\* whose creation time is strictly greater than t and no qualifying file
\* whose creation time is less than or equal to t (ctime = t is excluded).
C2_FilterStrictlyAfter ==
    (FindReturned /\ fa_timestamp # None) =>
        /\ fa_result[1].ok
        /\ \A i \in Qualifying :
              /\ source.entries[i].ctime > fa_timestamp => source.entries[i].path \in ResultPaths
              /\ source.entries[i].ctime <= fa_timestamp => source.entries[i].path \notin ResultPaths

C2_Witness ==
    /\ FindReturned /\ fa_timestamp # None
    /\ \E i, j, k \in Qualifying :
          /\ source.entries[i].ctime = fa_timestamp
          /\ source.entries[j].ctime > fa_timestamp
          /\ source.entries[k].ctime < fa_timestamp
    /\ Len(FindResult) = 1

\* C3: without a checkpoint, find_audio_files returns exactly the regular
\* files directly in the directory whose suffix is m4a or qta in any letter
\* case: nothing else, nothing nested, none left out, none twice.
C3_ExactlyTheAudioFiles ==
    (FindReturned /\ fa_timestamp = None) =>
        /\ fa_result[1].ok
        /\ ResultPaths = { source.entries[i].path : i \in Qualifying }
        /\ Len(FindResult) = Cardinality(Qualifying)
        /\ \A k \in 1..Len(FindResult) : Len(FindResult[k].path) = 1

C3_Witness ==
    /\ FindReturned /\ fa_timestamp = None
    /\ \E i, j, k \in 1..Len(source.entries) :
          /\ source.entries[i].is_file /\ source.entries[i].suffix = <<"M", "4", "A">>
          /\ source.entries[j].is_file /\ source.entries[j].suffix = <<"m", "p", "3">>
          /\ ~source.entries[k].is_file /\ source.entries[k].suffix = M4A
          /\ Len(source.entries[k].entries) = 1
    /\ Len(FindResult) = 1

\* C4: with or without a checkpoint, the result is in descending order of
\* creation time, strictly descending when the creation times are distinct.
C4_NewestFirst ==
    FindReturned =>
        /\ fa_result[1].ok
        /\ \A i, j \in 1..Len(FindResult) :
              i < j => /\ FindResult[i].ctime >= FindResult[j].ctime
                       /\ (\A a, b \in 1..Len(FindResult) :
                              a # b => FindResult[a].ctime # FindResult[b].ctime)
                            => FindResult[i].ctime > FindResult[j].ctime

C4_Witness ==
    /\ FindReturned
    /\ Len(FindResult) = 3
    /\ source.entries[1].ctime < source.entries[2].ctime
    /\ source.entries[2].ctime < source.entries[3].ctime
    /\ FindResult[1].path = <<3>> /\ FindResult[3].path = <<1>>

\* C11: find_audio_files raises FileNotFoundError for a path that does not
\* exist and NotADirectoryError for one that is not a directory, whether or
\* not it could be listed, and returns no result then.
C11_PathErrors ==
    fa_result # << >> =>
        /\ source.kind = "absent" => fa_result[1] = [ok |-> FALSE, error |-> "FileNotFoundError"]
        /\ source.kind = "file" => fa_result[1] = [ok |-> FALSE, error |-> "NotADirectoryError"]

C11_Witness ==
    /\ fa_result # << >>
    /\ source.kind = "file"
    /\ ~source.listable
    /\ fa_timestamp # None
    /\ ~fa_result[1].ok

\* C12: a qualifying file whose creation time cannot be read, during the
\* filter or during the sort, is left out of the result, and the call
\* returns normally with the remaining files: no OSError leaves the call.
C12_UnreadableSkipped ==
    FindReturned =>
        /\ fa_result[1].ok
        /\ \A i \in Qualifying :
              LET item == source.entries[i]
                  unreadable == \/ fa_timestamp # None /\ item.path \in fa_unreadable[1]
                                \/ item.path \in fa_unreadable[2]
              IN  /\ unreadable => item.path \notin ResultPaths
                  /\ (~unreadable /\ (fa_timestamp = None \/ item.ctime > fa_timestamp))
                        => item.path \in ResultPaths

\* a note written by run p for the recording at this path
NotedBy(p, path) ==
    \E k \in 1..Len(log) : log[k].run = run[p].id /\ log[k].path = path

\* run p follows a run that halted on a candidate, its discovery has
\* returned, and the directory it listed is the one the halted run listed
RetryOf(p) ==
    /\ run[p].prev.halted
    /\ run[p].i >= 1
    /\ run[p].present = run[p].prev.present

FoundPaths(p) ==
    { run[p].audio_files[k].path : k \in 1..Len(run[p].audio_files) }

\* C13 as stated: after a run halted on a candidate, with the directory
\* unchanged, the next run's discovery returns the failed candidate and all
\* later ones, and the next run processes each of them.
C13_RetryProcessesAll ==
    \A p \in Procs :
        (RetryOf(p) /\ run[p].pc \in {"done", "failed"}) =>
            /\ run[p].prev.pending \subseteq FoundPaths(p)
            /\ \A path \in run[p].prev.pending : NotedBy(p, path)

\* C13 amended: after a run halted on a candidate, with the directory
\* unchanged, the next run's discovery returns the failed candidate and all
\* later ones; the next run processes each of them that its loop has passed,
\* and all of them once it has completed.
C13_RetryDiscovered ==
    \A p \in Procs :
        RetryOf(p) =>
            /\ run[p].prev.pending \subseteq FoundPaths(p)
            /\ \A k \in 1..Len(run[p].audio_files) :
                  LET path == run[p].audio_files[k].path
                  IN  (path \in run[p].prev.pending /\ (k < run[p].i \/ run[p].pc = "done"))
                         => NotedBy(p, path)

C13_Witness ==
    \E p \in Procs :
        /\ RetryOf(p)
        /\ Cardinality(run[p].prev.pending) >= 2
        /\ run[p].pc = "done"

\* the recordings that appeared after the discovery of the completed run r
\* and whose creation time is not after the checkpoint that run wrote
Overtaken(r) ==
    { j \in Qualifying :
        /\ source.entries[j].path \notin succeeded[r].present
        /\ source.entries[j].ctime <= SecondsToTicks(IntSeconds(succeeded[r].at)) }

\* C14: the checkpoint is the clock at the checkpoint write, so a qualifying
\* recording created after a run's discovery and not after the checkpoint
\* that run wrote is skipped: that run writes no note for it, and no later
\* run finds it or writes a note for it.
C14_SkippedForGood ==
    \A r \in DOMAIN succeeded : \A j \in Overtaken(r) :
        LET path == source.entries[j].path
        IN  /\ \A k \in 1..Len(log) : log[k].run >= r => log[k].path # path
            /\ \A p \in Procs :
                  (run[p].id > r /\ run[p].i >= 1) => path \notin FoundPaths(p)

C14_Witness ==
    \E r \in DOMAIN succeeded : \E j \in Overtaken(r) : \E p \in Procs :
        /\ run[p].id > r
        /\ run[p].pc = "done"
        /\ source.entries[j].path \notin FoundPaths(p)
        /\ \A k \in 1..Len(log) : log[k].path # source.entries[j].path

\* the steps of the loop body for each candidate of the list, in list order
RECURSIVE LoopSteps(_)
LoopSteps(audio_files) ==
    IF Len(audio_files) = 0 THEN << >>
    ELSE << <<"convert", Head(audio_files).path>>,
            <<"transcribe", Head(audio_files).path>>,
            <<"note", Head(audio_files).path>> >> \o LoopSteps(Tail(audio_files))

\* the steps of a whole run of main() over this list of candidates
RunSteps(audio_files) ==
    << <<"read">>, <<"discover">> >> \o LoopSteps(audio_files) \o << <<"checkpoint">> >>

\* the steps run p has started so far, the mark of a raise left out
StepsOf(p) == SelectSeq(run[p].ops, LAMBDA op : op # <<"raise">>)

\* C16: the steps of a run occur in one fixed order: checkpoint read, then
\* discovery, then for each candidate in the order discovery returned them
\* (newest first) conversion, transcription, note, and last the checkpoint
\* write, each exactly once; a completed run has taken all of them.
C16_LinearOrder ==
    \A p \in Procs :
        LET r == run[p]
            steps == StepsOf(p)
            all == RunSteps(r.audio_files)
        IN  /\ Len(steps) <= Len(all)
            /\ \A k \in 1..Len(steps) : steps[k] = all[k]
            /\ r.pc = "done" => steps = all
            /\ \A k \in 1..Len(r.audio_files) : \A m \in k..Len(r.audio_files) :
                  r.audio_files[k].ctime >= r.audio_files[m].ctime

C16_Witness ==
    \E p \in Procs :
        /\ run[p].pc = "done"
        /\ Len(run[p].audio_files) = 2
        /\ run[p].audio_files[1].ctime > run[p].audio_files[2].ctime
        /\ StepsOf(p) = RunSteps(run[p].audio_files)

\* a run that is not in progress
AtRest(p) == run[p].pc \in {"idle", "done", "failed"}

\* the transcripts that conversions of the recordings in the source
\* directory, complete or broken off, can lead to
Transcripts ==
    { TextOf(Mp3Of(source.entries[j])) : j \in 1..Len(source.entries) }
        \cup { TextOf(PartialMp3) }

\* the note at position k of the history holds the transcript of a
\* recording other than the one its run was processing
ForeignBody(k) ==
    /\ log[k].body # TextOf(PartialMp3)
    /\ log[k].body # TextOf(Mp3Of([path |-> log[k].path]))

\* runs a and b both wrote the checkpoint, a read the clock in an earlier
\* second than b, and the file holds a's value
EarlierCheckpointWins(a, b) ==
    /\ run[a].pc = "done" /\ run[b].pc = "done"
    /\ run[a].now # None /\ run[b].now # None
    /\ IntSeconds(run[a].now) < IntSeconds(run[b].now)
    /\ CheckpointIn(cwd) = << Str(IntSeconds(run[a].now)) >>

\* C15: nothing keeps two runs of main() apart: an invocation can start
\* whatever the other run is doing, every note holds the transcript of
\* whatever conversion wrote temp.mp3 last, of either run, and the
\* checkpoint file holds the clock reading of whichever run stored last.
C15_NoMutualExclusion ==
    /\ \A p \in OverlapProcs : (AtRest(p) /\ nruns < MaxRuns) => ENABLED Start(p)
    /\ \A k \in 1..Len(log) : log[k].body \in Transcripts
    /\ CheckpointIn(cwd) \in
          { << >> } \cup { << Str(IntSeconds(succeeded[r].at)) >> : r \in DOMAIN succeeded }

C15_Witness ==
    /\ \E k \in 1..Len(log) : ForeignBody(k)
    /\ \E a, b \in OverlapProcs : EarlierCheckpointWins(a, b)

====
